---- MODULE Spec2Model ----
(***************************************************************************)
(* Model of maplibre-gl-stars: the StarsPlugin control                     *)
(* (src/unnamed/part_000) and the createStarsLayer custom layer            *)
(* (src/stars-layer.js), together with the part of the WebGL context and   *)
(* of the host map that the two components read and write.                 *)
(*                                                                         *)
(* Units: density is held in thousandths (150 is 0.15), the threshold      *)
(* literal baked into the fragment shader in hundredths (85 is "0.85"),    *)
(* intensity in whole units (20 is 20.0) and projectionTransition in       *)
(* steps of 1/MaxTransition.                                               *)
(***************************************************************************)
EXTENDS Integers, Sequences, FiniteSets, TLC

VARIABLES
    options,         \* the options object given to the constructor / factory
    intensity,       \* this.intensity
    density,         \* this.density
    map,             \* this.map: TRUE when it holds the host map, FALSE when null
    program,         \* this.program
    vertexShader,    \* this.vertexShader
    fragmentShader,  \* this.fragmentShader
    vertexBuffer,    \* this.vertexBuffer
    indexBuffer,     \* this.indexBuffer
    customLayer,     \* this._customLayer: TRUE once the layer object was built
    gl,              \* the WebGL state the components read and write
    created,         \* every GL object created so far
    deleted,         \* every GL object passed to a delete call so far
    linked,          \* the programs whose LINK_STATUS is true
    baked,           \* fragment shader handle -> threshold literal of its source
    layers,          \* the host style's layer ids, in render order
    gen,             \* number of onAdd calls so far (names the objects of each)
    lastOp,          \* the most recent operation
    entry,           \* gl when the most recent operation was entered
    calls,           \* the GL and host calls the most recent operation issued
    drawn,           \* gl at each drawElements call of the most recent operation
    thrown,          \* whether the most recent operation raised an error
    transition,      \* projectionTransition of the frame, when it was a render
    requested,       \* the argument of the most recent setIntensity (0: none yet)
    detachedGen      \* gen at the most recent onRemove (0: none after an onAdd)

vars == << options, intensity, density, map, program, vertexShader,
           fragmentShader, vertexBuffer, indexBuffer, customLayer, gl, created,
           deleted, linked, baked, layers, gen, lastOp, entry, calls, drawn,
           thrown, transition, requested, detachedGen >>

component == << intensity, density, map, program, vertexShader, fragmentShader,
                vertexBuffer, indexBuffer, customLayer >>

objects == << created, deleted, linked, baked >>

----------------------------------------------------------------------------
\* Bounds of the model.

\* onAdd is called at most this many times in one behaviour.
MaxAttach == 2

\* projectionTransition takes the values 0/MaxTransition .. MaxTransition/MaxTransition.
MaxTransition == 2

----------------------------------------------------------------------------
\* The WebGL enumerants the components use or can meet in the host's state.
GLenum ==
    [ ZERO |-> 0, ONE |-> 1, SRC_ALPHA |-> 770, ONE_MINUS_SRC_ALPHA |-> 771,
      LESS |-> 513, ALWAYS |-> 519 ]

\* JavaScript null for a GL object reference.
Null == [kind |-> "null", gen |-> 0]

\* The GL object of the given kind created by the g-th onAdd.
Handle(kind, g) == [kind |-> kind, gen |-> g]

\* A program of the host renderer (never created or deleted by the components).
HostProgram == Handle("program", 0)

\* One logged call.
Call(op, h, v) == [op |-> op, h |-> h, v |-> v]

\* options.intensity || 20.0
DefaultIntensity == 20

\* options.density || 0.15, in thousandths
DefaultDensity == 150

\* Number.prototype.toFixed(2) of t thousandths, in hundredths: the nearest
\* hundredth. Where t ends in 5 the double nearest to t/1000 decides the
\* direction, so the densities drawn below keep 1000 - d off those values.
ToFixed2(t) == (t + 5) \div 10

\* A literal that is always computed from the density of the constructor's
\* options, whatever the component holds now.
ThresholdLiteralAtConstruction(d) ==
    ToFixed2(1000 - (IF "density" \in DOMAIN options /\ options.density # 0
                     THEN options.density ELSE DefaultDensity))

\* ${(1 - this.density).toFixed(2)}: the literal the fragment shader compares
\* the cell hash against.
ThresholdLiteral(d) == ToFixed2(1000 - d)

StarsLayerId == "stars-plugin-layer"

LayerPresent == \E i \in 1..Len(layers) : layers[i] = StarsLayerId

\* map.addLayer(layer, beforeId): before the layer beforeId, at the end when
\* beforeId is undefined (given here as the empty string).
AddLayer(ls, id, beforeId) ==
    IF beforeId = ""
    THEN Append(ls, id)
    ELSE LET i == CHOOSE j \in 1..Len(ls) : ls[j] = beforeId
         IN  SubSeq(ls, 1, i - 1) \o <<id>> \o SubSeq(ls, i, Len(ls))

\* map.removeLayer(id)
RemoveLayer(ls, id) == SelectSeq(ls, LAMBDA x : x # id)

----------------------------------------------------------------------------
\* WebGL calls that change the modelled state.

\* gl.useProgram(p): null unbinds; a program that is not linked or was deleted
\* is rejected with a GL error and the current program stays.
UseProgram(g, p) ==
    IF p = Null THEN [g EXCEPT !.program = Null]
    ELSE IF p \in linked /\ p \notin deleted THEN [g EXCEPT !.program = p]
    ELSE g

\* gl.blendFunc(s, d) sets the RGB and the alpha factors alike.
BlendFunc(g, s, d) ==
    [g EXCEPT !.blendSrcRGB = s, !.blendDstRGB = d,
              !.blendSrcAlpha = s, !.blendDstAlpha = d]

----------------------------------------------------------------------------
\* StarsPlugin (src/unnamed/part_000)

NoCalls == << >>

\* A _createShader that keeps the shader of the first attach and hands it
\* out again on every later one.
_createShaderCached(kind, g, ok) ==
    LET shader == Handle(kind, 1)
    IN  [ ret     |-> IF ok THEN shader ELSE Null,
          created |-> {shader},
          deleted |-> IF ok THEN {} ELSE {shader},
          calls   |-> << Call("gl.compileShader", shader, 0) >> ]

\* _createShader(gl, type, source): the shader, or null after a failed
\* compilation, which deletes the shader it created. ok is COMPILE_STATUS.
_createShader(kind, g, ok) ==
    LET shader == Handle(kind, g)
    IN  [ ret     |-> IF ok THEN shader ELSE Null,
          created |-> {shader},
          deleted |-> IF ok THEN {} ELSE {shader},
          calls   |-> << Call("gl.createShader", shader, 0),
                         Call("gl.shaderSource", shader, 0),
                         Call("gl.compileShader", shader, 0) >>
                      \o (IF ok THEN NoCalls
                          ELSE << Call("console.error", Null, 0),
                                  Call("gl.deleteShader", shader, 0) >>) ]

\* _createProgram(gl, vertexShader, fragmentShader). gl.attachShader with a
\* null shader either raises a TypeError (the argument is not nullable in
\* the current WebGL IDL) or records INVALID_VALUE and returns (older
\* bindings): nullArgThrows chooses. linkOk is what the linker answers for
\* two compiled shaders; a program with a shader missing never links.
_createProgram(g, vs, fs, linkOk, nullArgThrows) ==
    LET prog    == Handle("program", g)
        threw   == (vs = Null \/ fs = Null) /\ nullArgThrows
        status  == vs # Null /\ fs # Null /\ linkOk
        upTo1   == << Call("gl.createProgram", prog, 0),
                      Call("gl.attachShader", vs, 0) >>
        upTo2   == upTo1 \o << Call("gl.attachShader", fs, 0) >>
        upTo3   == upTo2 \o << Call("gl.linkProgram", prog, 0) >>
    IN  IF threw
        THEN [ ret |-> Null, threw |-> TRUE, created |-> {prog},
               deleted |-> {}, linked |-> {},
               calls |-> IF vs = Null THEN upTo1 ELSE upTo2 ]
        ELSE IF status
        THEN [ ret |-> prog, threw |-> FALSE, created |-> {prog},
               deleted |-> {}, linked |-> {prog}, calls |-> upTo3 ]
        ELSE [ ret |-> Null, threw |-> FALSE, created |-> {prog},
               deleted |-> {prog}, linked |-> {},
               calls |-> upTo3 \o << Call("console.error", Null, 0),
                                     Call("gl.deleteProgram", prog, 0) >> ]

\* onAdd(map): compile both shaders (the density literal is written into the
\* fragment source here), link, build the quad buffers, and add the custom
\* layer before the style's first layer. When _createProgram throws, the
\* statements after it do not run and the error reaches the host.
onAdd(vsOk, fsOk, linkOk, nullArgThrows) ==
    /\ gen < MaxAttach
    /\ ~ LayerPresent
    /\ LET g  == gen + 1
           vs == _createShader("vertexShader", g, vsOk)
           fs == _createShader("fragmentShader", g, fsOk)
           pr == _createProgram(g, vs.ret, fs.ret, linkOk, nullArgThrows)
           vb == Handle("vertexBuffer", g)
           ib == Handle("indexBuffer", g)
           firstLayerId == IF Len(layers) > 0 THEN layers[1] ELSE ""
       IN  /\ gen' = g
           /\ map' = TRUE
           /\ vertexShader' = vs.ret
           /\ fragmentShader' = fs.ret
           /\ baked' = [h \in DOMAIN baked \cup {Handle("fragmentShader", g)} |->
                          IF h = Handle("fragmentShader", g)
                          THEN ThresholdLiteral(density) ELSE baked[h]]
           /\ linked' = linked \cup pr.linked
           /\ thrown' = pr.threw
           /\ IF pr.threw
              THEN /\ UNCHANGED << program, vertexBuffer, indexBuffer,
                                   customLayer, layers >>
                   /\ created' = created \cup vs.created \cup fs.created
                                         \cup pr.created
                   /\ deleted' = deleted \cup vs.deleted \cup fs.deleted
                   /\ calls' = vs.calls \o fs.calls \o pr.calls
              ELSE /\ program' = pr.ret
                   /\ vertexBuffer' = vb
                   /\ indexBuffer' = ib
                   /\ customLayer' = TRUE
                   /\ layers' = AddLayer(layers, StarsLayerId, firstLayerId)
                   /\ created' = created \cup vs.created \cup fs.created
                                         \cup pr.created \cup {vb, ib}
                   /\ deleted' = deleted \cup vs.deleted \cup fs.deleted
                                         \cup pr.deleted
                   /\ calls' = vs.calls \o fs.calls \o pr.calls \o
                         << Call("gl.createBuffer", vb, 0),
                            Call("gl.bindBuffer", vb, 0),
                            Call("gl.bufferData", vb, 0),
                            Call("gl.createBuffer", ib, 0),
                            Call("gl.bindBuffer", ib, 0),
                            Call("gl.bufferData", ib, 0),
                            Call("map.addLayer", Null, 0) >>
    /\ lastOp' = "onAdd"
    /\ entry' = gl
    /\ drawn' = << >>
    /\ transition' = 0
    /\ UNCHANGED << options, intensity, density, gl, requested, detachedGen >>

\* The GL calls of _render between the state snapshot and the restore that
\* can raise instead of returning ("none": every call returns).
ThrowPoints == {"none", "uniform", "bindBuffer", "drawElements"}

\* A gate that lets only the completed transition through.
NotInGlobeModeBelowOne(pt) == pt < MaxTransition

\* if (projectionData.projectionTransition === 0) return;
NotInGlobeMode(pt) == pt = 0

\* gl.depthFunc(gl.ALWAYS); gl.depthMask(false); gl.enable(gl.BLEND);
\* gl.blendFunc(gl.SRC_ALPHA, gl.ONE_MINUS_SRC_ALPHA);
SetDrawState(g) ==
    BlendFunc([g EXCEPT !.depthFunc = GLenum.ALWAYS, !.depthMask = FALSE,
                        !.blend = TRUE],
              GLenum.SRC_ALPHA, GLenum.ONE_MINUS_SRC_ALPHA)

\* The "Restore state" block of _render; old is the gl state read by the
\* "Save GL state" block (only the alpha factors are read there). A factor
\* of gl.ZERO and a null program are falsy, so the guarded calls are skipped.
RestoreState(g, old) ==
    LET g1 == [g EXCEPT !.depthFunc = old.depthFunc,
                        !.depthMask = old.depthMask]
        g2 == IF ~ old.blend THEN [g1 EXCEPT !.blend = FALSE] ELSE g1
        g3 == IF old.blendSrcAlpha # 0 /\ old.blendDstAlpha # 0
              THEN BlendFunc(g2, old.blendSrcAlpha, old.blendDstAlpha)
              ELSE g2
    IN  IF old.program # Null THEN UseProgram(g3, old.program) ELSE g3

\* Uniform uploads that take the intensity the constructor saw.
UniformCallsAtConstruction ==
    << Call("gl.useProgram", program, 0),
       Call("gl.uniformMatrix4fv:u_inv_proj_matrix", Null, 0),
       Call("gl.uniform3fv:u_globe_position", Null, 0),
       Call("gl.uniform1f:u_globe_radius", Null, 0),
       Call("gl.uniform1f:u_stars_intensity", Null,
            IF "intensity" \in DOMAIN options /\ options.intensity # 0
            THEN options.intensity ELSE DefaultIntensity),
       Call("gl.uniform2fv:u_globe_center", Null, 0),
       Call("gl.uniform3fv:u_camera_angles", Null, 0) >>

\* The calls of _render up to the uniform uploads.
UniformCalls ==
    << Call("gl.useProgram", program, 0),
       Call("gl.uniformMatrix4fv:u_inv_proj_matrix", Null, 0),
       Call("gl.uniform3fv:u_globe_position", Null, 0),
       Call("gl.uniform1f:u_globe_radius", Null, 0),
       Call("gl.uniform1f:u_stars_intensity", Null, intensity),
       Call("gl.uniform2fv:u_globe_center", Null, 0),
       Call("gl.uniform3fv:u_camera_angles", Null, 0) >>

\* ... up to the draw call.
DrawCalls ==
    UniformCalls \o
    << Call("gl.bindBuffer", vertexBuffer, 0),
       Call("gl.enableVertexAttribArray", Null, 0),
       Call("gl.vertexAttribPointer", Null, 0),
       Call("gl.bindBuffer", indexBuffer, 0),
       Call("gl.depthFunc", Null, GLenum.ALWAYS),
       Call("gl.depthMask", Null, 0),
       Call("gl.enable:BLEND", Null, 0),
       Call("gl.blendFunc", Null, 0),
       Call("gl.drawElements", Null, 6) >>

\* ... and the restore block.
RestoreCalls(old) ==
    << Call("gl.depthFunc", Null, old.depthFunc),
       Call("gl.depthMask", Null, 0) >>
    \o (IF ~ old.blend THEN << Call("gl.disable:BLEND", Null, 0) >> ELSE NoCalls)
    \o (IF old.blendSrcAlpha # 0 /\ old.blendDstAlpha # 0
        THEN << Call("gl.blendFunc", Null, 0) >> ELSE NoCalls)
    \o << Call("gl.disableVertexAttribArray", Null, 0),
          Call("gl.bindBuffer", Null, 0),
          Call("gl.bindBuffer", Null, 0) >>
    \o (IF old.program # Null
        THEN << Call("gl.useProgram", old.program, 0) >> ELSE NoCalls)

\* _render(gl): nothing without a map or a program, nothing outside globe
\* mode; otherwise save, set up, draw, restore. An error raised by a call
\* leaves _render at that call: nothing catches it.
_render(pt, throwAt) ==
    /\ lastOp' = "_render"
    /\ entry' = gl
    /\ transition' = pt
    /\ UNCHANGED << options, component, objects, layers, gen, requested,
                    detachedGen >>
    /\ IF ~ map \/ program = Null \/ NotInGlobeMode(pt)
       THEN /\ throwAt = "none"
            /\ calls' = << >>
            /\ drawn' = << >>
            /\ thrown' = FALSE
            /\ UNCHANGED gl
       ELSE LET old  == gl
                used == UseProgram(gl, program)
                set  == SetDrawState(used)
            IN  CASE throwAt = "uniform" ->
                       /\ gl' = used
                       /\ calls' = UniformCalls
                       /\ drawn' = << >>
                       /\ thrown' = TRUE
                  [] throwAt = "bindBuffer" ->
                       /\ gl' = used
                       /\ calls' = UniformCalls
                                   \o << Call("gl.bindBuffer", vertexBuffer, 0) >>
                       /\ drawn' = << >>
                       /\ thrown' = TRUE
                  [] throwAt = "drawElements" ->
                       /\ gl' = set
                       /\ calls' = DrawCalls
                       /\ drawn' = << set >>
                       /\ thrown' = TRUE
                  [] OTHER ->
                       /\ gl' = RestoreState(set, old)
                       /\ calls' = DrawCalls \o RestoreCalls(old)
                       /\ drawn' = << set >>
                       /\ thrown' = FALSE

\* onRemove(): remove the layer when there is a map and a layer object,
\* delete the five GL objects when there is a program and a map, then clear
\* this.map and this.program (the other references are kept).
onRemove ==
    /\ lastOp' = "onRemove"
    /\ entry' = gl
    /\ layers' = IF map /\ customLayer THEN RemoveLayer(layers, StarsLayerId)
                 ELSE layers
    /\ deleted' = IF program # Null /\ map
                  THEN deleted \cup ({program, vertexShader, fragmentShader,
                                      vertexBuffer, indexBuffer} \ {Null})
                  ELSE deleted
    /\ calls' = (IF map /\ customLayer
                 THEN << Call("map.removeLayer", Null, 0) >> ELSE NoCalls)
                \o (IF program # Null /\ map
                    THEN << Call("gl.deleteProgram", program, 0),
                            Call("gl.deleteShader", vertexShader, 0),
                            Call("gl.deleteShader", fragmentShader, 0),
                            Call("gl.deleteBuffer", vertexBuffer, 0),
                            Call("gl.deleteBuffer", indexBuffer, 0) >>
                    ELSE NoCalls)
    /\ map' = FALSE
    /\ program' = Null
    /\ drawn' = << >>
    /\ thrown' = FALSE
    /\ transition' = 0
    /\ UNCHANGED << options, intensity, density, vertexShader, fragmentShader,
                    vertexBuffer, indexBuffer, customLayer, gl, created,
                    linked, baked, gen, requested >>
    /\ detachedGen' = gen

\* setIntensity(intensity)
setIntensity(x) ==
    /\ intensity' = x
    /\ requested' = x
    /\ UNCHANGED detachedGen
    /\ transition' = 0
    /\ calls' = IF map THEN << Call("map.triggerRepaint", Null, 0) >>
                ELSE NoCalls
    /\ lastOp' = "setIntensity"
    /\ entry' = gl
    /\ drawn' = << >>
    /\ thrown' = FALSE
    /\ UNCHANGED << options, density, map, program, vertexShader,
                    fragmentShader, vertexBuffer, indexBuffer, customLayer,
                    gl, objects, layers, gen >>

\* setDensity(density): assigns the field and warns; no shader is rebuilt.
setDensity(d) ==
    /\ density' = d
    /\ transition' = 0
    /\ UNCHANGED << requested, detachedGen >>
    /\ calls' = << Call("console.warn", Null, 0) >>
    /\ lastOp' = "setDensity"
    /\ entry' = gl
    /\ drawn' = << >>
    /\ thrown' = FALSE
    /\ UNCHANGED << options, intensity, map, program, vertexShader,
                    fragmentShader, vertexBuffer, indexBuffer, customLayer,
                    gl, objects, layers, gen >>

----------------------------------------------------------------------------
\* Construction and the host.

\* The option objects built from the given intensities and densities, each
\* key present or absent.
OptionObjects(I, D) ==
    {[k \in {} |-> 0]}
    \cup {[intensity |-> i] : i \in I}
    \cup {[density |-> d] : d \in D}
    \cup {[intensity |-> i, density |-> d] : i \in I, d \in D}

\* options.<key> || <default>: the default for an absent key and for 0.
OrDefault(o, key, default) ==
    IF key \in DOMAIN o /\ o[key] # 0 THEN o[key] ELSE default

\* The WebGL state of a fresh context.
FreshGL ==
    [ program |-> Null, depthTest |-> FALSE, depthFunc |-> GLenum.LESS,
      depthMask |-> TRUE, blend |-> FALSE,
      blendSrcRGB |-> GLenum.ONE, blendDstRGB |-> GLenum.ZERO,
      blendSrcAlpha |-> GLenum.ONE, blendDstAlpha |-> GLenum.ZERO ]

\* constructor(options = {})
Constructed(o) ==
    /\ options = o
    /\ intensity = OrDefault(o, "intensity", DefaultIntensity)
    /\ density = OrDefault(o, "density", DefaultDensity)
    /\ map = FALSE
    /\ program = Null
    /\ vertexBuffer = Null
    /\ indexBuffer = Null
    /\ vertexShader = Null
    /\ fragmentShader = Null
    /\ customLayer = FALSE

\* The rest of the world when the component is constructed: a fresh context,
\* no object of the component, the style's layers as given.
World(style) ==
    /\ gl = FreshGL
    /\ created = {}
    /\ deleted = {}
    /\ linked = {HostProgram}
    /\ baked = [h \in {} |-> 0]
    /\ layers = style
    /\ gen = 0
    /\ lastOp = "constructor"
    /\ entry = FreshGL
    /\ calls = << >>
    /\ drawn = << >>
    /\ thrown = FALSE
    /\ transition = 0
    /\ requested = 0
    /\ detachedGen = 0

\* The states the host renderer leaves the context in between two calls of
\* the plugin: with or without a program of its own in use.
HostStates ==
    { [FreshGL EXCEPT !.program = p] : p \in {Null, HostProgram} }

\* The host renderer draws its own layers and leaves the context in state s.
HostSetState(s) ==
    /\ gl' = s
    /\ entry' = s
    /\ lastOp' = "host"
    /\ calls' = << >>
    /\ drawn' = << >>
    /\ thrown' = FALSE
    /\ transition' = 0
    /\ UNCHANGED << options, component, objects, layers, gen, requested,
                    detachedGen >>

\* The blend factors the host renderer sets in the wide host states.
HostFactors == {GLenum.ZERO, GLenum.SRC_ALPHA}

\* Host states that vary every value the components read or write.
WideHostStates ==
    [ program : {Null, HostProgram}, depthTest : BOOLEAN,
      depthFunc : {GLenum.LESS, GLenum.ALWAYS},
      depthMask : BOOLEAN, blend : BOOLEAN,
      blendSrcRGB : HostFactors, blendDstRGB : HostFactors,
      blendSrcAlpha : HostFactors, blendDstAlpha : HostFactors ]

ProjectionTransitions == 0..MaxTransition

----------------------------------------------------------------------------
\* createStarsLayer (src/stars-layer.js)

\* createStarsLayer(options = {}): intensity and density are constants of the
\* closure; the layer object has no map, program or buffer yet.
createStarsLayer(o) ==
    /\ options = o
    /\ intensity = OrDefault(o, "intensity", DefaultIntensity)
    /\ density = OrDefault(o, "density", DefaultDensity)
    /\ map = FALSE
    /\ program = Null
    /\ vertexBuffer = Null
    /\ indexBuffer = Null
    /\ vertexShader = Null
    /\ fragmentShader = Null
    /\ customLayer = FALSE

\* The layer's onAdd(map, gl): a failed compilation or link is logged and
\* nothing else; the shaders are locals, the program is kept in this.program
\* whether it linked or not.
LayerOnAdd(vsOk, fsOk, linkOk) ==
    /\ gen < MaxAttach
    /\ LET g    == gen + 1
           vs   == Handle("vertexShader", g)
           fs   == Handle("fragmentShader", g)
           prog == Handle("program", g)
           vb   == Handle("vertexBuffer", g)
           ib   == Handle("indexBuffer", g)
           err(ok) == IF ok THEN NoCalls
                      ELSE << Call("console.error", Null, 0) >>
       IN  /\ gen' = g
           /\ map' = TRUE
           /\ program' = prog
           /\ vertexBuffer' = vb
           /\ indexBuffer' = ib
           /\ created' = created \cup {vs, fs, prog, vb, ib}
           /\ linked' = IF vsOk /\ fsOk /\ linkOk THEN linked \cup {prog}
                        ELSE linked
           /\ baked' = [h \in DOMAIN baked \cup {fs} |->
                          IF h = fs THEN ThresholdLiteral(density)
                          ELSE baked[h]]
           /\ calls' = << Call("gl.createShader", vs, 0),
                          Call("gl.shaderSource", vs, 0),
                          Call("gl.compileShader", vs, 0) >> \o err(vsOk)
                       \o << Call("gl.createShader", fs, 0),
                             Call("gl.shaderSource", fs, 0),
                             Call("gl.compileShader", fs, 0) >> \o err(fsOk)
                       \o << Call("gl.createProgram", prog, 0),
                             Call("gl.attachShader", vs, 0),
                             Call("gl.attachShader", fs, 0),
                             Call("gl.linkProgram", prog, 0) >>
                       \o err(vsOk /\ fsOk /\ linkOk)
                       \o << Call("gl.createBuffer", vb, 0),
                             Call("gl.bindBuffer", vb, 0),
                             Call("gl.bufferData", vb, 0),
                             Call("gl.createBuffer", ib, 0),
                             Call("gl.bindBuffer", ib, 0),
                             Call("gl.bufferData", ib, 0) >>
    /\ lastOp' = "onAdd"
    /\ entry' = gl
    /\ drawn' = << >>
    /\ thrown' = FALSE
    /\ transition' = 0
    /\ UNCHANGED << options, intensity, density, vertexShader, fragmentShader,
                    customLayer, gl, deleted, layers, requested,
                    detachedGen >>

\* The layer's render(gl, matrix): this.map.transform raises a TypeError
\* while this.map is undefined; outside globe mode nothing happens; otherwise
\* the program is used, the uniforms uploaded, and the quad drawn with the
\* depth test disabled and enabled again afterwards. Nothing is saved.
LayerRender(pt) ==
    /\ lastOp' = "render"
    /\ entry' = gl
    /\ transition' = pt
    /\ UNCHANGED << options, component, objects, layers, gen, requested,
                    detachedGen >>
    /\ IF ~ map
       THEN /\ thrown' = TRUE
            /\ calls' = << >>
            /\ drawn' = << >>
            /\ UNCHANGED gl
       ELSE IF NotInGlobeMode(pt)
       THEN /\ thrown' = FALSE
            /\ calls' = << >>
            /\ drawn' = << >>
            /\ UNCHANGED gl
       ELSE LET used == UseProgram(gl, program)
                off  == [used EXCEPT !.depthTest = FALSE]
            IN  /\ thrown' = FALSE
                /\ gl' = [off EXCEPT !.depthTest = TRUE]
                /\ drawn' = << off >>
                /\ calls' = UniformCalls \o
                      << Call("gl.bindBuffer", vertexBuffer, 0),
                         Call("gl.enableVertexAttribArray", Null, 0),
                         Call("gl.vertexAttribPointer", Null, 0),
                         Call("gl.bindBuffer", indexBuffer, 0),
                         Call("gl.disable:DEPTH_TEST", Null, 0),
                         Call("gl.drawElements", Null, 6),
                         Call("gl.enable:DEPTH_TEST", Null, 0) >>

----------------------------------------------------------------------------
\* Specifications.

\* StarsPlugin with the default options, every outcome of compilation and
\* linking, every exit of _render, and a host that switches programs.
Init ==
    /\ Constructed([k \in {} |-> 0])
    /\ World(<< "background" >>)

Next ==
    \/ \E vsOk, fsOk, linkOk, nullArgThrows \in BOOLEAN :
          onAdd(vsOk, fsOk, linkOk, nullArgThrows)
    \/ onRemove
    \/ \E pt \in ProjectionTransitions, throwAt \in ThrowPoints :
          _render(pt, throwAt)
    \/ \E x \in {30} : setIntensity(x)
    \/ \E d \in {500} : setDensity(d)
    \/ \E s \in HostStates : HostSetState(s)

Spec == Init /\ [][Next]_vars

\* StarsPlugin over its configuration: the options given or not, several
\* intensities and densities; shaders compile and calls return.
ConfigInit ==
    /\ \E o \in OptionObjects({5}, {0, 152, 1000}) : Constructed(o)
    /\ World(<< "background" >>)

ConfigNext ==
    \/ onAdd(TRUE, TRUE, TRUE, FALSE)
    \/ onRemove
    \/ \E pt \in ProjectionTransitions : _render(pt, "none")
    \/ \E x \in {5, 30} : setIntensity(x)
    \/ \E d \in {500, 848} : setDensity(d)

ConfigSpec == ConfigInit /\ [][ConfigNext]_vars

\* StarsPlugin's _render under every host state.
GuardNext ==
    \/ onAdd(TRUE, TRUE, TRUE, FALSE)
    \/ \E pt \in ProjectionTransitions, throwAt \in ThrowPoints :
          _render(pt, throwAt)
    \/ \E s \in WideHostStates : HostSetState(s)

GuardSpec == Init /\ [][GuardNext]_vars

\* The custom layer of createStarsLayer under every host state.
LayerInit ==
    /\ createStarsLayer([k \in {} |-> 0])
    /\ World(<< "background" >>)

LayerNext ==
    \/ \E vsOk, fsOk, linkOk \in BOOLEAN : LayerOnAdd(vsOk, fsOk, linkOk)
    \/ \E pt \in ProjectionTransitions : LayerRender(pt)
    \/ \E s \in WideHostStates : HostSetState(s)

LayerSpec == LayerInit /\ [][LayerNext]_vars

----------------------------------------------------------------------------
\* Properties.

\* The state values _render snapshots, in the order it reads them, with the
\* RGB blend factors next to the alpha ones.
Snapshotted(g) ==
    << g.program, g.depthFunc, g.depthMask, g.blend,
       g.blendSrcRGB, g.blendDstRGB, g.blendSrcAlpha, g.blendDstAlpha >>

\* The most recent operation was a render call of either component.
Rendered == lastOp \in {"_render", "render"}

\* The number of draw calls the gate allows for the frame's transition.
GateDraws == IF transition = 0 THEN 0 ELSE 1

\* C1: after a render call that returns, the active program, the depth
\* function, the depth write mask, the blend flag and the blend factors equal
\* their values at entry, whatever the state at entry.
C1_StateRestored ==
    (Rendered /\ ~ thrown) => Snapshotted(gl) = Snapshotted(entry)

C3_UnattachedRenderIsNoop ==
    (Rendered /\ ~ map) => (calls = << >> /\ gl = entry /\ ~ thrown)

\* The most recent attach met a compilation or link failure: its program
\* never linked.
AttachFailed == gen > 0 /\ Handle("program", gen) \notin linked

\* C4: after a failed compilation or link, attach raises nothing and leaves
\* the program handle null, and every later render draws nothing and raises
\* nothing.
C4_FailedAttachContained ==
    /\ (lastOp = "onAdd" /\ AttachFailed) => (~ thrown /\ program = Null)
    /\ (Rendered /\ AttachFailed) => (drawn = << >> /\ ~ thrown)

\* C5: after detach the layer is unregistered, every GL object the component
\* created has been deleted, and the component holds none of them.
C5_DetachReleasesAll ==
    lastOp = "onRemove" =>
        /\ ~ LayerPresent
        /\ created \subseteq deleted
        /\ program = Null /\ vertexShader = Null /\ fragmentShader = Null
        /\ vertexBuffer = Null /\ indexBuffer = Null

\* C6: when a GL call between the snapshot and the restore raises, the
\* snapshotted state still equals its value at entry when render exits.
C6_RestoredWhenThrown ==
    (Rendered /\ thrown) => Snapshotted(gl) = Snapshotted(entry)

\* The uploads of the star-intensity uniform in the most recent operation.
IntensityUploads ==
    SelectSeq(calls, LAMBDA c : c.op = "gl.uniform1f:u_stars_intensity")

\* C7: a render that draws after setIntensity(x) uploads x, the most recent
\* value, as the star intensity; setIntensity itself issues no GL call (it
\* only asks the map to repaint).
C7_IntensityNextFrame ==
    /\ (Rendered /\ drawn # << >> /\ requested # 0) =>
          /\ Len(IntensityUploads) = 1
          /\ IntensityUploads[1].v = requested
    /\ lastOp = "setIntensity" =>
          \A i \in 1..Len(calls) : calls[i].op = "map.triggerRepaint"

C7_Witness ==
    /\ Rendered /\ drawn # << >>
    /\ "intensity" \in DOMAIN options
    /\ requested # 0 /\ requested # options.intensity
    /\ IntensityUploads[1].v = requested

\* The density the constructor takes from an options object that names one.
ConstructionDensity == OrDefault(options, "density", DefaultDensity)

\* C8 as stated: the component's density and the density baked into every
\* shader it compiles equal the density given at construction.
C8_DensityImmutable ==
    /\ density = ConstructionDensity
    /\ \A h \in DOMAIN baked : baked[h] = ToFixed2(1000 - ConstructionDensity)

\* C8 as amended: only setDensity changes the component's density; a shader
\* is baked when onAdd compiles it, with the density the component holds
\* then, and its literal never changes afterwards.
C8_BakedAtAttach ==
    [][ /\ density' # density => lastOp' = "setDensity"
        /\ \A h \in DOMAIN baked :
              h \in DOMAIN baked' /\ baked'[h] = baked[h]
        /\ \A h \in DOMAIN baked' \ DOMAIN baked :
              lastOp' = "onAdd" /\ baked'[h] = ToFixed2(1000 - density) ]_vars

C8_Witness ==
    /\ program # Null
    /\ density # ConstructionDensity
    /\ baked[fragmentShader] = ToFixed2(1000 - density)
    /\ \E h \in DOMAIN baked : baked[h] # baked[fragmentShader]

\* Cell hashes, in thousandths.
Hashes == 0..999

\* if (hash > <literal>): the compiled test for a star in the cell.
StarInCell(h, literal) == h > literal * 10

\* C9: a density given at construction is the component's density (the
\* default stands in only for a missing one), and the compiled shader puts
\* a star in a cell of hash h exactly when h > 1 - density.
C9_DensityThreshold ==
    /\ (lastOp = "constructor" /\ "density" \in DOMAIN options) =>
          density = options.density
    /\ (lastOp = "onAdd" /\ fragmentShader # Null) =>
          \A h \in Hashes :
              StarInCell(h, baked[fragmentShader]) <=> h > 1000 - density

\* C10: at every draw call the depth test is disabled or always passes, depth
\* writes are off, and blending is on with (SRC_ALPHA, ONE_MINUS_SRC_ALPHA).
C10_DrawState ==
    \A i \in 1..Len(drawn) :
        /\ ~ drawn[i].depthTest \/ drawn[i].depthFunc = GLenum.ALWAYS
        /\ ~ drawn[i].depthMask
        /\ drawn[i].blend
        /\ drawn[i].blendSrcRGB = GLenum.SRC_ALPHA
        /\ drawn[i].blendSrcAlpha = GLenum.SRC_ALPHA
        /\ drawn[i].blendDstRGB = GLenum.ONE_MINUS_SRC_ALPHA
        /\ drawn[i].blendDstAlpha = GLenum.ONE_MINUS_SRC_ALPHA

\* The GL objects the component refers to.
Held ==
    {program, vertexShader, fragmentShader, vertexBuffer, indexBuffer} \ {Null}

\* The component was attached, detached and attached again, and not detached
\* since.
Reattached == map /\ detachedGen >= 1 /\ gen > detachedGen

\* How many times the stars layer is in the style.
Registrations ==
    Cardinality({i \in 1..Len(layers) : layers[i] = StarsLayerId})

----------------------------------------------------------------------------
\* StarsPlugin over the styles it can be attached to.

\* The layer lists the style holds when the plugin is constructed.
Styles == { << >>, << "background" >>, << "background", "water" >> }

StyleInit ==
    /\ Constructed([k \in {} |-> 0])
    /\ \E style \in Styles : World(style)

StyleNext ==
    \/ \E vsOk, fsOk, linkOk, nullArgThrows \in BOOLEAN :
          onAdd(vsOk, fsOk, linkOk, nullArgThrows)
    \/ onRemove
    \/ \E pt \in ProjectionTransitions : _render(pt, "none")

StyleSpec == StyleInit /\ [][StyleNext]_vars

\* C12: every attach leaves the stars layer first in the style's layer list,
\* in front of every layer the style held when onAdd was called, for an
\* empty and for a non-empty list.
C12_StarsLayerFirst ==
    [][ lastOp' = "onAdd" => layers' = << StarsLayerId >> \o layers ]_vars

\* The calls that use an object, and the calls that delete one.
UseOps == {"gl.useProgram", "gl.bindBuffer", "gl.drawElements"}

DeleteOps == {"gl.deleteProgram", "gl.deleteShader", "gl.deleteBuffer"}

\* C13: no operation passes a handle that was already deleted to
\* useProgram, bindBuffer or drawElements, none deletes a handle a second
\* time, and an onRemove that follows an onRemove issues no call at all.
C13_NoUseAfterDelete ==
    [][ /\ \A i \in 1..Len(calls') :
              calls'[i].op \in UseOps => calls'[i].h \notin deleted
        /\ \A i \in 1..Len(calls') :
              calls'[i].op \in DeleteOps =>
                  /\ calls'[i].h \notin deleted
                  /\ \A j \in 1..Len(calls') :
                        (j # i /\ calls'[j].op \in DeleteOps)
                            => calls'[j].h # calls'[i].h
        /\ (lastOp = "onRemove" /\ lastOp' = "onRemove") => calls' = << >>
      ]_vars

====
